---------------------------- MODULE Spec2Model ----------------------------
(***************************************************************************)
(* The blob data client of sdk/data/blob/blob.go: Write, Read and Delete   *)
(* against data partitions, over a connection pool and a partition         *)
(* locator.  One client call runs at a time; every network step (acquire,  *)
(* send, receive) and every reply field is an input of the environment.    *)
(* With it, the master's storage nodes (DataNode): heartbeat updates, the  *)
(* liveness sweep, the readers, and the Carry Scheduler that selects the   *)
(* node of the next write.                                                 *)
(***************************************************************************)
EXTENDS Integers, Sequences, FiniteSets, TLC

(***************************************************************************)
(* Program constants and bounds                                            *)
(***************************************************************************)
MaxRetryCnt == 100

\* the writable view can hold MaxRetryCnt + ExtraParts partitions
ExtraParts == 1
\* longest payload, in bytes
MaxLen == 1
\* largest replica group
MaxHosts == 3
NumParts == MaxRetryCnt + ExtraParts
Bytes == {0, 255}
\* request ids a packet can carry (proto.GetReqID is a counter)
ReqIds == {1, 2}

RECURSIVE SeqsUpTo(_, _)
SeqsUpTo(S, n) ==
    IF n = 0 THEN {<<>>}
    ELSE LET shorter == SeqsUpTo(S, n - 1)
         IN  shorter \cup {Append(s, x) : s \in shorter, x \in S}

Payloads == SeqsUpTo(Bytes, MaxLen)

(***************************************************************************)
(* hash/crc32.ChecksumIEEE, bit by bit (reflected polynomial 0xEDB88320).  *)
(* A uint32 is the pair <<high 16 bits, low 16 bits>>.                     *)
(***************************************************************************)
RECURSIVE Xor(_, _, _)
Xor(a, b, n) ==
    IF n = 0 THEN 0
    ELSE (((a % 2) + (b % 2)) % 2) + 2 * Xor(a \div 2, b \div 2, n - 1)

Xor32(x, y) == <<Xor(x[1], y[1], 16), Xor(x[2], y[2], 16)>>

Shr1(x) == <<x[1] \div 2, (x[2] \div 2) + (x[1] % 2) * 32768>>

IEEEPoly == <<60856, 33568>>
AllOnes == <<65535, 65535>>

RECURSIVE CrcBits(_, _)
CrcBits(c, n) ==
    IF n = 0 THEN c
    ELSE CrcBits(IF c[2] % 2 = 1 THEN Xor32(Shr1(c), IEEEPoly) ELSE Shr1(c), n - 1)

RECURSIVE CrcUpdate(_, _, _)
CrcUpdate(c, d, k) ==
    IF k > Len(d) THEN c
    ELSE CrcUpdate(CrcBits(Xor32(c, <<0, d[k]>>), 8), d, k + 1)

ChecksumIEEE(d) == Xor32(CrcUpdate(AllOnes, d, 1), AllOnes)

CrcTable == [d \in Payloads |-> ChecksumIEEE(d)]
CrcValues == {CrcTable[d] : d \in Payloads}


(***************************************************************************)
(* Errors are chains of messages, outermost first; nil is the empty chain. *)
(***************************************************************************)
NilErr == <<>>
ENOMEM == <<"ENOMEM">>
EIO == <<"EIO">>
EINVAL == <<"EINVAL">>
ErrDial == <<"dial failed">>
ErrSend == <<"write to conn failed">>
ErrRecv == <<"read from conn failed">>
ErrNoWritable == <<"no writable data partition">>
ErrNotExist == <<"data partition not exist">>

Annotatef(cause, msg) == <<msg>> \o cause

(***************************************************************************)
(* Data partitions and the partition locator (wrapper.Wrapper)             *)
(***************************************************************************)
NilDp == [PartitionID |-> 0, Hosts |-> <<>>]
NilConn == 0
NilData == <<>>

HostCount(p) == ((p - 1) % MaxHosts) + 1
HostsOf(p) == [k \in 1..HostCount(p) |-> 10 * p + k]
DataPartition(p) == [PartitionID |-> p, Hosts |-> HostsOf(p)]

PartIds == 1..NumParts
UnknownPid == NumParts + 1

\* the first writable partition, in list order, that is not excluded
GetWriteDataPartition(rw, excluded) ==
    LET ex == {excluded[k] : k \in 1..Len(excluded)}
        cand == rw \ ex
    IN  IF cand = {}
        THEN [dp |-> NilDp, err |-> ErrNoWritable]
        ELSE [dp |-> DataPartition(CHOOSE p \in cand : \A q \in cand : p <= q),
              err |-> NilErr]

GetDataPartition(partitionID) ==
    IF partitionID \in PartIds
    THEN [dp |-> DataPartition(partitionID), err |-> NilErr]
    ELSE [dp |-> NilDp, err |-> ErrNotExist]

(***************************************************************************)
(* The connection pool (pool.ConnPool), with the bookkeeping of one call:  *)
(* held = connections acquired and not yet released, misPuts = releases of *)
(* something not held (nil, or already released), gets = calls of Get,     *)
(* lastPut = the release made since the last call of Get, if any.          *)
(***************************************************************************)
NoPut == [conn |-> NilConn, forceClose |-> FALSE]
FreshPool == [held |-> {}, misPuts |-> 0, gets |-> 0, lastPut |-> NoPut]

GetOk(p, target) ==
    [p EXCEPT !.held = @ \cup {target}, !.gets = @ + 1, !.lastPut = NoPut]
GetFail(p) == [p EXCEPT !.gets = @ + 1, !.lastPut = NoPut]

Put(p, c, forceClose) ==
    [p EXCEPT !.held = @ \ {c},
              !.misPuts = IF c \in p.held THEN @ ELSE @ + 1,
              !.lastPut = [conn |-> c, forceClose |-> forceClose]]

\* called with a non-nil error: the connection goes back marked for closing
CheckErrorForPutConnect(p, c) == IF c = NilConn THEN p ELSE Put(p, c, TRUE)

(***************************************************************************)
(* Packets (proto.Packet) and blob keys                                    *)
(***************************************************************************)
NoPacket ==
    [Opcode |-> "none", ReqID |-> 0, PartitionID |-> 0, FileID |-> 0,
     ObjID |-> 0, Size |-> 0, Data |-> <<>>, Crc |-> <<0, 0>>]

NewBlobWritePacket(d, wdata, reqID) ==
    [Opcode |-> "OpWrite", ReqID |-> reqID, PartitionID |-> d.PartitionID,
     FileID |-> 0, ObjID |-> 0, Size |-> Len(wdata), Data |-> wdata,
     Crc |-> CrcTable[wdata]]

NewBlobReadPacket(partitionID, fileID, objID, size, reqID) ==
    [Opcode |-> "OpRead", ReqID |-> reqID, PartitionID |-> partitionID,
     FileID |-> fileID, ObjID |-> objID, Size |-> size, Data |-> <<>>,
     Crc |-> <<0, 0>>]

NewBlobDeletePacket(d, fileID, objID, reqID) ==
    [Opcode |-> "OpMarkDelete", ReqID |-> reqID, PartitionID |-> d.PartitionID,
     FileID |-> fileID, ObjID |-> objID, Size |-> 0, Data |-> <<>>,
     Crc |-> <<0, 0>>]

\* what ReadFromConn can deliver: any header, a body of Size bytes
Replies(req, d, bodies) ==
    {[Opcode |-> o, ReqID |-> r, PartitionID |-> p, FileID |-> 1, ObjID |-> 1,
      Size |-> Len(b), Data |-> b, Crc |-> c] :
        o \in {"OpOk", "OpErr"}, r \in ReqIds,
        p \in {req.PartitionID, d.PartitionID, 0},
        b \in bodies, c \in CrcValues}

KeySegsCnt == 6
ClientCluster == ""
ClientVolname == "vol1"

GenKey(cluster, volname, partitionID, fileID, objID, size) ==
    <<cluster, volname, partitionID, fileID, objID, size>>

ParseKey(k) ==
    IF Len(k) = KeySegsCnt
    THEN [cluster |-> k[1], volname |-> k[2], partitionID |-> k[3],
          fileID |-> k[4], objID |-> k[5], size |-> k[6], err |-> NilErr]
    ELSE [cluster |-> "", volname |-> "", partitionID |-> 0, fileID |-> 0,
          objID |-> 0, size |-> 0, err |-> <<"invalid key">>]

ParsePacket(pkt) ==
    [partitionID |-> pkt.PartitionID, fileID |-> pkt.FileID,
     objID |-> pkt.ObjID, size |-> pkt.Size]

Keys ==
    {GenKey(c, v, p, 1, 1, 1) :
        c \in {ClientCluster, "other"}, v \in {ClientVolname, "vol2"},
        p \in (1..MaxHosts) \cup {UnknownPid}}
    \cup {<<ClientCluster, ClientVolname, 1>>}

(***************************************************************************)
(* Response validation                                                     *)
(***************************************************************************)
\* fault variant: the CRC of the request payload is not compared
checkWriteResponseNoCrc(req, rep) ==
    IF rep.Opcode # "OpOk" THEN <<"replyOp Err">>
    ELSE IF req.ReqID # rep.ReqID THEN <<"REQID not equare">>
    ELSE IF req.PartitionID # rep.PartitionID THEN <<"PartitionID not equare">>
    ELSE NilErr

checkWriteResponse(req, rep) ==
    IF rep.Opcode # "OpOk" THEN <<"replyOp Err">>
    ELSE IF req.ReqID # rep.ReqID THEN <<"REQID not equare">>
    ELSE IF req.PartitionID # rep.PartitionID THEN <<"PartitionID not equare">>
    ELSE IF CrcTable[SubSeq(req.Data, 1, req.Size)] # rep.Crc
         THEN <<"CRC not equare">>
    ELSE NilErr

\* fault variant: the CRC of the reply payload is not compared
checkReadResponseNoCrc(req, rep) ==
    IF rep.Opcode # "OpOk" THEN <<"replyOp Err">>
    ELSE IF req.ReqID # rep.ReqID THEN <<"REQID not equare">>
    ELSE IF req.PartitionID # rep.PartitionID THEN <<"PartitionID not equare">>
    ELSE NilErr

checkReadResponse(req, rep) ==
    IF rep.Opcode # "OpOk" THEN <<"replyOp Err">>
    ELSE IF req.ReqID # rep.ReqID THEN <<"REQID not equare">>
    ELSE IF req.PartitionID # rep.PartitionID THEN <<"PartitionID not equare">>
    ELSE IF CrcTable[SubSeq(rep.Data, 1, rep.Size)] # rep.Crc
         THEN <<"CRC not equare">>
    ELSE NilErr

(***************************************************************************)
(* State                                                                   *)
(***************************************************************************)
VARIABLES
    pc,         \* position of the running call: idle, done, or a step of it
    op,         \* the call: "none", "Write", "Read", "Delete"
    arg,        \* its argument: the payload of Write, the key of Read/Delete
    rwParts,    \* the locator's writable partitions during the call
    request,    \* the request packet
    exclude,    \* Write: the partition ids excluded so far
    i,          \* Write: the loop counter
    hostIdx,    \* Read: index of the replica host being tried
    dp,         \* the data partition in use
    conn,       \* the connection in use
    reply,      \* the reply packet
    key,        \* result of Write
    data,       \* result of Read: <<>> for nil, <<payload>> otherwise
    err,        \* the error value, returned when pc = "done"
    pool,       \* the connection pool's bookkeeping for this call
    lookups,    \* calls of the partition locator in this call
    attempted,  \* Write: the partition ids obtained from the locator, in order
    tried       \* Read/Delete: per host tried, [host, sent, cause]

vars == <<pc, op, arg, rwParts, request, exclude, i, hostIdx, dp, conn, reply,
          key, data, err, pool, lookups, attempted, tried>>

\* The master's registry of storage nodes (package master, DataNode) is a
\* separate program: the client's steps leave it alone and its steps leave
\* the client alone.
VARIABLES
    now,        \* the master's clock, time.Now(), in whole seconds
    nodes,      \* the DataNode of every registered node
    mutex,      \* per node, the thread holding its write lock (0: nobody)
    th,         \* per master thread, the method it is inside and its locals
    obs,        \* what the method call that just returned gave its caller
    sel         \* per selector, its place in the selection and its locals

nodeVars == <<now, nodes, mutex, th, obs, sel>>

Init ==
    /\ pc = "idle" /\ op = "none" /\ arg = <<>> /\ rwParts = {}
    /\ request = NoPacket /\ exclude = <<>> /\ i = 0 /\ hostIdx = 0
    /\ dp = NilDp /\ conn = NilConn /\ reply = NoPacket
    /\ key = <<>> /\ data = NilData /\ err = NilErr
    /\ pool = FreshPool /\ lookups = 0 /\ attempted = <<>> /\ tried = <<>>

\* a call starts on an idle client, whose locals and bookkeeping are fresh
Begin(o, a) ==
    /\ pc = "idle"
    /\ op' = o /\ arg' = a
    /\ UNCHANGED <<exclude, i, hostIdx, dp, conn, reply, key, data, pool,
                   lookups, attempted, tried>>

Return(k, d, e) == pc' = "done" /\ key' = k /\ data' = d /\ err' = e

(***************************************************************************)
(* BlobClient.Write                                                        *)
(***************************************************************************)
RwSizes == {0, 1, 2, NumParts}

StartWrite(wdata, reqID, n) ==
    /\ Begin("Write", wdata)
    /\ UNCHANGED nodeVars
    /\ rwParts' = 1..n
    /\ request' = NewBlobWritePacket(NilDp, wdata, reqID)
    /\ err' = NilErr
    /\ pc' = "w_loop"

\* fault variant: a failed attempt does not exclude its partition
WriteContinueNoExclude(e, p) ==
    /\ err' = e
    /\ pool' = p
    /\ i' = i + 1
    /\ conn' = NilConn /\ reply' = NoPacket
    /\ pc' = "w_loop"
    /\ UNCHANGED <<op, arg, rwParts, request, exclude, hostIdx, dp, key, data,
                   lookups, attempted, tried>>

\* a failed attempt: exclude the partition and go round the loop
WriteContinue(e, p) ==
    /\ err' = e
    /\ pool' = p
    /\ exclude' = Append(exclude, dp.PartitionID)
    /\ i' = i + 1
    /\ conn' = NilConn /\ reply' = NoPacket
    /\ pc' = "w_loop"
    /\ UNCHANGED <<op, arg, rwParts, request, hostIdx, dp, key, data, lookups,
                   attempted, tried>>

\* fault variant: the loop bound is off by one
WriteLoopOneMore ==
    /\ pc = "w_loop"
    /\ UNCHANGED nodeVars
    /\ IF i > MaxRetryCnt
       THEN /\ Return(<<>>, NilData, EIO)
            /\ UNCHANGED <<dp, lookups, attempted>>
       ELSE LET got == GetWriteDataPartition(rwParts, exclude)
            IN  /\ lookups' = lookups + 1
                /\ IF got.err # NilErr
                   THEN /\ Return(<<>>, NilData, ENOMEM)
                        /\ dp' = got.dp
                        /\ UNCHANGED attempted
                   ELSE /\ dp' = got.dp
                        /\ attempted' = Append(attempted, got.dp.PartitionID)
                        /\ err' = NilErr
                        /\ pc' = "w_conn"
                        /\ UNCHANGED <<key, data>>
    /\ UNCHANGED <<op, arg, rwParts, request, exclude, i, hostIdx, conn, reply,
                   pool, tried>>

\* fault variant: no partition is reported as the retry-exhaustion error
WriteLoopNoPartitionIsEIO ==
    /\ pc = "w_loop"
    /\ UNCHANGED nodeVars
    /\ IF i >= MaxRetryCnt
       THEN /\ Return(<<>>, NilData, EIO)
            /\ UNCHANGED <<dp, lookups, attempted>>
       ELSE LET got == GetWriteDataPartition(rwParts, exclude)
            IN  /\ lookups' = lookups + 1
                /\ IF got.err # NilErr
                   THEN /\ Return(<<>>, NilData, EIO)
                        /\ dp' = got.dp
                        /\ UNCHANGED attempted
                   ELSE /\ dp' = got.dp
                        /\ attempted' = Append(attempted, got.dp.PartitionID)
                        /\ err' = NilErr
                        /\ pc' = "w_conn"
                        /\ UNCHANGED <<key, data>>
    /\ UNCHANGED <<op, arg, rwParts, request, exclude, i, hostIdx, conn, reply,
                   pool, tried>>

WriteLoop ==
    /\ pc = "w_loop"
    /\ UNCHANGED nodeVars
    /\ IF i >= MaxRetryCnt
       THEN /\ Return(<<>>, NilData, EIO)
            /\ UNCHANGED <<dp, lookups, attempted>>
       ELSE LET got == GetWriteDataPartition(rwParts, exclude)
            IN  /\ lookups' = lookups + 1
                /\ IF got.err # NilErr
                   THEN /\ Return(<<>>, NilData, ENOMEM)
                        /\ dp' = got.dp
                        /\ UNCHANGED attempted
                   ELSE /\ dp' = got.dp
                        /\ attempted' = Append(attempted, got.dp.PartitionID)
                        /\ err' = NilErr
                        /\ pc' = "w_conn"
                        /\ UNCHANGED <<key, data>>
    /\ UNCHANGED <<op, arg, rwParts, request, exclude, i, hostIdx, conn, reply,
                   pool, tried>>

WriteGetConn ==
    /\ pc = "w_conn"
    /\ UNCHANGED nodeVars
    /\ \/ /\ conn' = dp.Hosts[1]
          /\ pool' = GetOk(pool, dp.Hosts[1])
          /\ err' = NilErr
          /\ pc' = "w_send"
          /\ UNCHANGED <<op, arg, rwParts, request, exclude, i, hostIdx, dp,
                         reply, key, data, lookups, attempted, tried>>
       \/ WriteContinue(ErrDial, GetFail(pool))

WriteSend ==
    /\ pc = "w_send"
    /\ UNCHANGED nodeVars
    /\ \/ /\ pc' = "w_recv"
          /\ UNCHANGED <<op, arg, rwParts, request, exclude, i, hostIdx, dp,
                         conn, reply, key, data, err, pool, lookups, attempted,
                         tried>>
       \/ WriteContinue(ErrSend, CheckErrorForPutConnect(pool, conn))

WriteRecv ==
    /\ pc = "w_recv"
    /\ UNCHANGED nodeVars
    /\ \/ /\ reply' \in Replies(request, dp, {<<>>, request.Data})
          /\ pc' = "w_check"
          /\ UNCHANGED <<op, arg, rwParts, request, exclude, i, hostIdx, dp,
                         conn, key, data, err, pool, lookups, attempted, tried>>
       \/ WriteContinue(ErrRecv, Put(pool, conn, TRUE))

WriteCheck ==
    /\ pc = "w_check"
    /\ UNCHANGED nodeVars
    /\ LET e == checkWriteResponse(request, reply)
           parsed == ParsePacket(reply)
       IN  IF e # NilErr
           THEN WriteContinue(e, Put(pool, conn, TRUE))
           ELSE /\ pool' = Put(pool, conn, FALSE)
                /\ Return(GenKey(ClientCluster, ClientVolname, parsed.partitionID,
                                 parsed.fileID, parsed.objID, parsed.size),
                          NilData, NilErr)
                /\ UNCHANGED <<op, arg, rwParts, request, exclude, i, hostIdx,
                               dp, conn, reply, lookups, attempted, tried>>

(***************************************************************************)
(* BlobClient.Read                                                         *)
(***************************************************************************)
\* fault variant: the volume of the key is not compared
KeyRejectedNoVolume(parsed) ==
    \/ parsed.err # NilErr
    \/ parsed.cluster # ClientCluster

\* the key does not decode, or names another cluster or volume
KeyRejected(parsed) ==
    \/ parsed.err # NilErr
    \/ parsed.cluster # ClientCluster
    \/ parsed.volname # ClientVolname

Attempt(host, sent, cause) == [host |-> host, sent |-> sent, cause |-> cause]

\* the record of the host being tried, updated in place
Mark(sent, cause) ==
    [tried EXCEPT ![Len(tried)] = Attempt(@.host, sent, cause)]

StartRead(k) ==
    /\ Begin("Read", k)
    /\ UNCHANGED nodeVars
    /\ UNCHANGED <<rwParts, request>>
    /\ IF KeyRejected(ParseKey(k))
       THEN /\ pc' = "done"
            /\ err' = EINVAL
       ELSE /\ pc' = "r_lookup"
            /\ err' = NilErr

\* fault variant: an unresolved partition returns without its error
ReadLookupDropsErr(reqID) ==
    /\ pc = "r_lookup"
    /\ UNCHANGED nodeVars
    /\ LET parsed == ParseKey(arg)
           got == GetDataPartition(parsed.partitionID)
       IN  /\ lookups' = lookups + 1
           /\ dp' = got.dp
           /\ err' = NilErr
           /\ IF got.dp = NilDp
              THEN /\ pc' = "done"
                   /\ UNCHANGED <<request, hostIdx>>
              ELSE /\ request' = NewBlobReadPacket(parsed.partitionID, parsed.fileID,
                                                   parsed.objID, parsed.size, reqID)
                   /\ hostIdx' = 1
                   /\ pc' = "r_conn"
    /\ UNCHANGED <<op, arg, rwParts, exclude, i, conn, reply, key, data, pool,
                   attempted, tried>>

ReadLookup(reqID) ==
    /\ pc = "r_lookup"
    /\ UNCHANGED nodeVars
    /\ LET parsed == ParseKey(arg)
           got == GetDataPartition(parsed.partitionID)
       IN  /\ lookups' = lookups + 1
           /\ dp' = got.dp
           /\ err' = got.err
           /\ IF got.dp = NilDp
              THEN /\ pc' = "done"
                   /\ UNCHANGED <<request, hostIdx>>
              ELSE /\ request' = NewBlobReadPacket(parsed.partitionID, parsed.fileID,
                                                   parsed.objID, parsed.size, reqID)
                   /\ hostIdx' = 1
                   /\ pc' = "r_conn"
    /\ UNCHANGED <<op, arg, rwParts, exclude, i, conn, reply, key, data, pool,
                   attempted, tried>>

\* a failed replica: on to the next host
ReadContinue(e, p, t) ==
    /\ err' = e
    /\ pool' = p
    /\ tried' = t
    /\ hostIdx' = hostIdx + 1
    /\ conn' = NilConn /\ reply' = NoPacket
    /\ pc' = "r_conn"
    /\ UNCHANGED <<op, arg, rwParts, request, exclude, i, dp, key, data, lookups,
                   attempted>>

ReadGetConn ==
    /\ pc = "r_conn"
    /\ UNCHANGED nodeVars
    /\ IF hostIdx > Len(dp.Hosts)
       THEN /\ Return(<<>>, NilData, EIO)
            /\ UNCHANGED <<op, arg, rwParts, request, exclude, i, hostIdx, dp,
                           conn, reply, pool, lookups, attempted, tried>>
       ELSE LET target == dp.Hosts[hostIdx]
            IN  \/ /\ conn' = target
                   /\ pool' = GetOk(pool, target)
                   /\ err' = NilErr
                   /\ tried' = Append(tried, Attempt(target, FALSE, "none"))
                   /\ pc' = "r_send"
                   /\ UNCHANGED <<op, arg, rwParts, request, exclude, i, hostIdx,
                                  dp, reply, key, data, lookups, attempted>>
                \/ ReadContinue(Annotatef(ErrDial, "ReadRequest Get connect"),
                                Put(GetFail(pool), conn, TRUE),
                                Append(tried, Attempt(target, FALSE, "get")))

ReadSend ==
    /\ pc = "r_send"
    /\ UNCHANGED nodeVars
    /\ \/ /\ tried' = Mark(TRUE, "none")
          /\ pc' = "r_recv"
          /\ UNCHANGED <<op, arg, rwParts, request, exclude, i, hostIdx, dp,
                         conn, reply, key, data, err, pool, lookups, attempted>>
       \/ ReadContinue(Annotatef(ErrSend, "ReadRequest Write To host"),
                       CheckErrorForPutConnect(pool, conn),
                       Mark(TRUE, "send"))

ReadRecv ==
    /\ pc = "r_recv"
    /\ UNCHANGED nodeVars
    /\ \/ /\ reply' \in Replies(request, dp, Payloads)
          /\ pc' = "r_check"
          /\ UNCHANGED <<op, arg, rwParts, request, exclude, i, hostIdx, dp,
                         conn, key, data, err, pool, lookups, attempted, tried>>
       \/ ReadContinue(Annotatef(ErrRecv, "ReadRequest ReadFrom host"),
                       Put(pool, conn, TRUE),
                       Mark(TRUE, "recv"))

ReadCheck ==
    /\ pc = "r_check"
    /\ UNCHANGED nodeVars
    /\ LET e == checkReadResponse(request, reply)
       IN  IF e # NilErr
           THEN ReadContinue(Annotatef(e, "ReadRequest CheckReadResponse"),
                             Put(pool, conn, TRUE),
                             Mark(TRUE, "check"))
           ELSE /\ pool' = Put(pool, conn, FALSE)
                /\ tried' = Mark(TRUE, "ok")
                /\ Return(<<>>, <<reply.Data>>, NilErr)
                /\ UNCHANGED <<op, arg, rwParts, request, exclude, i, hostIdx,
                               dp, conn, reply, lookups, attempted>>

(***************************************************************************)
(* BlobClient.Delete                                                       *)
(***************************************************************************)
StartDelete(k) ==
    /\ Begin("Delete", k)
    /\ UNCHANGED nodeVars
    /\ UNCHANGED <<rwParts, request>>
    /\ IF KeyRejected(ParseKey(k))
       THEN /\ pc' = "done"
            /\ err' = EINVAL
       ELSE /\ pc' = "d_lookup"
            /\ err' = NilErr

DeleteLookup(reqID) ==
    /\ pc = "d_lookup"
    /\ UNCHANGED nodeVars
    /\ LET parsed == ParseKey(arg)
           got == GetDataPartition(parsed.partitionID)
       IN  /\ lookups' = lookups + 1
           /\ dp' = got.dp
           /\ err' = got.err
           /\ IF got.dp = NilDp
              THEN /\ pc' = "done"
                   /\ UNCHANGED request
              ELSE /\ request' = NewBlobDeletePacket(got.dp, parsed.fileID,
                                                     parsed.objID, reqID)
                   /\ pc' = "d_conn"
    /\ UNCHANGED <<op, arg, rwParts, exclude, i, hostIdx, conn, reply, key, data,
                   pool, attempted, tried>>

\* Delete returns the error e
DeleteReturn(e, p, t) ==
    /\ err' = e
    /\ pool' = p
    /\ tried' = t
    /\ pc' = "done"
    /\ UNCHANGED <<op, arg, rwParts, request, exclude, i, hostIdx, dp, conn,
                   reply, key, data, lookups, attempted>>

DeleteGetConn ==
    /\ pc = "d_conn"
    /\ UNCHANGED nodeVars
    /\ \/ /\ conn' = dp.Hosts[1]
          /\ pool' = GetOk(pool, dp.Hosts[1])
          /\ err' = NilErr
          /\ tried' = Append(tried, Attempt(dp.Hosts[1], FALSE, "none"))
          /\ pc' = "d_send"
          /\ UNCHANGED <<op, arg, rwParts, request, exclude, i, hostIdx, dp,
                         reply, key, data, lookups, attempted>>
       \/ DeleteReturn(Annotatef(ErrDial, "DeleteRequest Get connect"),
                       Put(GetFail(pool), conn, TRUE),
                       Append(tried, Attempt(dp.Hosts[1], FALSE, "get")))

DeleteSend ==
    /\ pc = "d_send"
    /\ UNCHANGED nodeVars
    /\ \/ /\ tried' = Mark(TRUE, "none")
          /\ pc' = "d_recv"
          /\ UNCHANGED <<op, arg, rwParts, request, exclude, i, hostIdx, dp,
                         conn, reply, key, data, err, pool, lookups, attempted>>
       \/ DeleteReturn(Annotatef(ErrSend, "DeleteRequest Write To host"),
                       CheckErrorForPutConnect(pool, conn),
                       Mark(TRUE, "send"))

DeleteRecv ==
    /\ pc = "d_recv"
    /\ UNCHANGED nodeVars
    /\ \/ /\ reply' \in Replies(request, dp, {<<>>})
          /\ pc' = "d_check"
          /\ UNCHANGED <<op, arg, rwParts, request, exclude, i, hostIdx, dp,
                         conn, key, data, err, pool, lookups, attempted, tried>>
       \/ DeleteReturn(Annotatef(ErrRecv, "DeleteRequest readResponse"),
                       Put(pool, conn, TRUE),
                       Mark(TRUE, "recv"))

\* fault variant: the opcode of the reply is not looked at
DeleteCheckIgnoresOpcode ==
    /\ pc = "d_check"
    /\ UNCHANGED nodeVars
    /\ DeleteReturn(NilErr, Put(pool, conn, FALSE), Mark(TRUE, "ok"))

DeleteCheck ==
    /\ pc = "d_check"
    /\ UNCHANGED nodeVars
    /\ IF reply.Opcode # "OpOk"
       THEN DeleteReturn(<<"replyOp Err">>, pool, Mark(TRUE, "check"))
       ELSE DeleteReturn(NilErr, Put(pool, conn, FALSE), Mark(TRUE, "ok"))

(***************************************************************************)
(* The client: one call at a time, each step of it an action               *)
(***************************************************************************)
\* the caller has the result; the client is idle again
Finish ==
    /\ pc = "done"
    /\ UNCHANGED nodeVars
    /\ pc' = "idle" /\ op' = "none" /\ arg' = <<>> /\ rwParts' = {}
    /\ request' = NoPacket /\ exclude' = <<>> /\ i' = 0 /\ hostIdx' = 0
    /\ dp' = NilDp /\ conn' = NilConn /\ reply' = NoPacket
    /\ key' = <<>> /\ data' = NilData /\ err' = NilErr
    /\ pool' = FreshPool /\ lookups' = 0 /\ attempted' = <<>> /\ tried' = <<>>

Next ==
    \/ \E wdata \in Payloads, reqID \in ReqIds, n \in RwSizes :
           StartWrite(wdata, reqID, n)
    \/ WriteLoop
    \/ WriteGetConn
    \/ WriteSend
    \/ WriteRecv
    \/ WriteCheck
    \/ \E k \in Keys : StartRead(k)
    \/ \E reqID \in ReqIds : ReadLookup(reqID)
    \/ ReadGetConn
    \/ ReadSend
    \/ ReadRecv
    \/ ReadCheck
    \/ \E k \in Keys : StartDelete(k)
    \/ \E reqID \in ReqIds : DeleteLookup(reqID)
    \/ DeleteGetConn
    \/ DeleteSend
    \/ DeleteRecv
    \/ DeleteCheck
    \/ Finish

(***************************************************************************)
(* The master's storage nodes (package master, DataNode)                   *)
(***************************************************************************)
NumNodes == 2
Nodes == 1..NumNodes
NumThreads == 2
Threads == 1..NumThreads

\* float64 values.  Every finite value the model computes is a multiple of
\* 1/Denom, kept as that integer multiple; dividing by zero gives NaN or an
\* infinity, as IEEE 754 arithmetic does in Go.
Num(k) == <<"num", k>>
NaN == <<"nan", 0>>
Inf(sign) == <<"inf", sign>>
IsNum(a) == a[1] = "num"
IsNaN(a) == a[1] = "nan"
FNeg(a) == IF IsNaN(a) THEN NaN ELSE <<a[1], 0 - a[2]>>
FAdd(a, b) ==
    IF IsNaN(a) \/ IsNaN(b) THEN NaN
    ELSE IF IsNum(a) /\ IsNum(b) THEN Num(a[2] + b[2])
    ELSE IF IsNum(a) THEN b
    ELSE IF IsNum(b) THEN a
    ELSE IF a[2] = b[2] THEN a ELSE NaN
FSub(a, b) == FAdd(a, FNeg(b))
\* a >= b; every comparison with NaN is false
FGe(a, b) ==
    IF IsNaN(a) \/ IsNaN(b) THEN FALSE
    ELSE IF IsNum(a) /\ IsNum(b) THEN a[2] >= b[2]
    ELSE IF IsNum(a) THEN b[2] < 0
    ELSE IF IsNum(b) THEN a[2] > 0
    ELSE a[2] >= b[2]
FGt(a, b) == FGe(a, b) /\ a # b

\* the (Total, Used) pairs heartbeats report, used <= total; Available is
\* reported on its own and is not derived from them
Capacities == {<<0, 0>>, <<1, 0>>, <<2, 1>>, <<1, 1>>}
Divides(d, k) == k % d = 0
RECURSIVE Product(_)
Product(S) ==
    IF S = {} THEN 1 ELSE LET x == CHOOSE y \in S : TRUE IN x * Product(S \ {x})
\* the least common multiple of the totals: every ratio used/total is a
\* whole number of 1/Denom
Denom ==
    LET ts == {c[1] : c \in Capacities} \ {0}
        common == {d \in 1..Product(ts) : \A t \in ts : Divides(t, d)}
    IN  CHOOSE d \in common : \A e \in common : d <= e
One == Num(Denom)
\* float64(u) / float64(t)
FDiv(u, t) ==
    IF t = 0 THEN (IF u = 0 THEN NaN ELSE Inf(1))
    ELSE Num((u * Denom) \div t)

\* rand.Float64(): a value in [0, 1)
RandFloats == {Num(k) : k \in 0..(Denom - 1)}

defaultNodeTimeOutSec == 1
DefaultDataPartitionSize == 1
\* the zero time.Time of a node that never reported; the master starts
\* more than a timeout after it
ZeroTime == 0
BootTime == ZeroTime + defaultNodeTimeOutSec + 1
MaxTicks == 2

PartitionReport(id, disk) == [PartitionID |-> id, DiskPath |-> disk]
Disks == {"/d1", "/d2"}
ReportLists ==
    { <<>>,
      <<PartitionReport(1, "/d1"), PartitionReport(2, "/d2"),
        PartitionReport(3, "/d1")>>,
      <<PartitionReport(4, "/d2")>> }
\* proto.DataNodeHeartBeatResponse
HeartBeatResponse(total, used, avail, reports) ==
    [Total |-> total, Used |-> used, Available |-> avail,
     RackName |-> "rack1", CreatedPartitionCnt |-> Len(reports),
     PartitionReports |-> reports]

\* struct DataNode; Addr is the node's index in nodes
newDataNode(carry) ==
    [Total |-> 1, Used |-> 0, Available |-> 0, RackName |-> "",
     ReportTime |-> ZeroTime, isActive |-> FALSE, Ratio |-> Num(0),
     SelectCount |-> 0, Carry |-> carry, dataPartitionReports |-> <<>>,
     DataPartitionCount |-> 0]

\* time.Since(dataNode.ReportTime) > defaultNodeTimeOutSec seconds, at clock
IsStale(d, clock) == clock - d.ReportTime > defaultNodeTimeOutSec

badPartitionIDs(d, disk) ==
    LET reports == d.dataPartitionReports
        RECURSIVE scan(_)
        scan(k) ==
            IF k > Len(reports) THEN <<>>
            ELSE IF reports[k].DiskPath = disk
                 THEN <<reports[k].PartitionID>> \o scan(k + 1)
                 ELSE scan(k + 1)
    IN  scan(1)

\* updateNodeMetric in four parts: the capacity fields, the report list, the
\* ratio, and the report time with the liveness flag
updateCapacity(d, resp) ==
    [d EXCEPT !.Total = resp.Total, !.Used = resp.Used,
              !.Available = resp.Available, !.RackName = resp.RackName,
              !.DataPartitionCount = resp.CreatedPartitionCnt]
updateReports(d, resp) ==
    [d EXCEPT !.dataPartitionReports = resp.PartitionReports]
updateRatio(d) ==
    [d EXCEPT !.Ratio = IF d.Total = 0 THEN Num(0) ELSE FDiv(d.Used, d.Total)]
updateAlive(d, clock) ==
    [d EXCEPT !.ReportTime = clock, !.isActive = TRUE]
updateNodeMetric(d, resp, clock) ==
    updateAlive(updateRatio(updateReports(updateCapacity(d, resp), resp)), clock)

isWriteAble(d) == d.isActive = TRUE /\ d.Available > DefaultDataPartitionSize

isAvailCarryNode(d) == FGe(d.Carry, One)

SetCarryDropped(d, carry) == d

SetCarryActivates(d, carry) == [d EXCEPT !.Carry = carry, !.isActive = TRUE]

SetCarry(d, carry) == [d EXCEPT !.Carry = carry]

SelectNodeForWriteTwice(d) ==
    [d EXCEPT !.Ratio = FDiv(d.Used, d.Total),
              !.SelectCount = d.SelectCount + 1,
              !.Carry = FSub(FSub(d.Carry, One), One)]

SelectNodeForWrite(d) ==
    [d EXCEPT !.Ratio = FDiv(d.Used, d.Total),
              !.SelectCount = d.SelectCount + 1,
              !.Carry = FSub(d.Carry, One)]

\* createHeartbeatTask: the task names the node by its address only
createHeartbeatTask(n, masterAddr) ==
    [OpCode |-> "OpDataNodeHeartbeat", OperatorAddr |-> n,
     MasterAddr |-> masterAddr]

\* toJSON marshals the exported fields; encoding/json refuses NaN and the
\* infinities
toJSON(d) ==
    IF IsNum(d.Ratio) /\ IsNum(d.Carry)
    THEN [body |-> [TotalWeight |-> d.Total, UsedWeight |-> d.Used,
                    Available |-> d.Available, RackName |-> d.RackName,
                    ReportTime |-> d.ReportTime, Ratio |-> d.Ratio,
                    SelectCount |-> d.SelectCount, Carry |-> d.Carry,
                    DataPartitionCount |-> d.DataPartitionCount],
          err |-> NilErr]
    ELSE [body |-> <<>>, err |-> "json: unsupported value"]

(***************************************************************************)
(* The registry's threads: heartbeat replies, the liveness sweep and the   *)
(* readers call a node's methods.  A method holds the node's lock from its *)
(* first statement to its return; a method that writes several fields or   *)
(* reads the clock before it writes is cut in steps, the others are one    *)
(* step.                                                                   *)
(***************************************************************************)
NoResp == HeartBeatResponse(0, 0, 0, <<>>)
IdleThread == [pc |-> "idle", n |-> 0, resp |-> NoResp, stale |-> FALSE]
NoObs == [op |-> "none", n |-> 0]
\* the heartbeat replies: every capacity with space to spare, every
\* report list, and replies with too little space or none
HeartBeats ==
    LET big == DefaultDataPartitionSize + 1
        some == CHOOSE r \in ReportLists : Len(r) = 1
        many == CHOOSE r \in ReportLists : Len(r) > 1
    IN  { HeartBeatResponse(2, 1, big, many),
          HeartBeatResponse(1, 0, big, some),
          HeartBeatResponse(1, 1, big, <<>>),
          HeartBeatResponse(0, 0, big, <<>>),
          HeartBeatResponse(1, 0, DefaultDataPartitionSize, many) }

\* Lock() succeeds when nobody holds the lock; RLock() when no writer does,
\* and the readers here return within their step
Unlocked(n) == mutex[n] = 0
Idle(t) == th[t].pc = "idle"
Inside(t, n) == th[t].pc # "idle" /\ th[t].n = n
MidUpdate(n) == \E t \in Threads : Inside(t, n) /\ th[t].pc \in {"u_reports", "u_ratio", "u_alive"}

Tick ==
    /\ now < BootTime + MaxTicks
    /\ now' = now + 1
    /\ obs' = NoObs
    /\ UNCHANGED <<nodes, mutex, th, sel>>
    /\ UNCHANGED vars

\* updateNodeMetric, lines 80-86: the lock and the capacity fields
UpdateLockSkipped(t, n, resp) ==
    /\ Idle(t)
    /\ nodes' = [nodes EXCEPT ![n] = updateCapacity(@, resp)]
    /\ th' = [th EXCEPT ![t] = [IdleThread EXCEPT !.pc = "u_reports", !.n = n,
                                                   !.resp = resp]]
    /\ obs' = NoObs
    /\ UNCHANGED <<now, mutex, sel>>
    /\ UNCHANGED vars

UpdateLock(t, n, resp) ==
    /\ Idle(t) /\ Unlocked(n)
    /\ mutex' = [mutex EXCEPT ![n] = t]
    /\ nodes' = [nodes EXCEPT ![n] = updateCapacity(@, resp)]
    /\ th' = [th EXCEPT ![t] = [IdleThread EXCEPT !.pc = "u_reports", !.n = n,
                                                   !.resp = resp]]
    /\ obs' = NoObs
    /\ UNCHANGED <<now, sel>>
    /\ UNCHANGED vars

\* line 87
UpdateReports(t) ==
    /\ th[t].pc = "u_reports"
    /\ nodes' = [nodes EXCEPT ![th[t].n] = updateReports(@, th[t].resp)]
    /\ th' = [th EXCEPT ![t].pc = "u_ratio", ![t].resp = NoResp]
    /\ obs' = NoObs
    /\ UNCHANGED <<now, mutex, sel>>
    /\ UNCHANGED vars

\* lines 88-92
UpdateRatio(t) ==
    /\ th[t].pc = "u_ratio"
    /\ nodes' = [nodes EXCEPT ![th[t].n] = updateRatio(@)]
    /\ th' = [th EXCEPT ![t].pc = "u_alive"]
    /\ obs' = NoObs
    /\ UNCHANGED <<now, mutex, sel>>
    /\ UNCHANGED vars

\* lines 93-94 and the deferred Unlock
UpdateUnlock(t) ==
    /\ th[t].pc = "u_alive"
    /\ nodes' = [nodes EXCEPT ![th[t].n] = updateAlive(@, now)]
    /\ mutex' = [mutex EXCEPT ![th[t].n] = IF @ = t THEN 0 ELSE @]
    /\ th' = [th EXCEPT ![t] = IdleThread]
    /\ obs' = [op |-> "updateNodeMetric", n |-> th[t].n]
    /\ UNCHANGED <<now, sel>>
    /\ UNCHANGED vars

\* checkLiveness, lines 57-59: the lock and the comparison with the clock
CheckLockSkipped(t, n) ==
    /\ Idle(t)
    /\ th' = [th EXCEPT ![t] = [IdleThread EXCEPT !.pc = "c_set", !.n = n,
                                   !.stale = IsStale(nodes[n], now)]]
    /\ obs' = NoObs
    /\ UNCHANGED <<now, nodes, mutex, sel>>
    /\ UNCHANGED vars

CheckLock(t, n) ==
    /\ Idle(t) /\ Unlocked(n)
    /\ mutex' = [mutex EXCEPT ![n] = t]
    /\ th' = [th EXCEPT ![t] = [IdleThread EXCEPT !.pc = "c_set", !.n = n,
                                   !.stale = IsStale(nodes[n], now)]]
    /\ obs' = NoObs
    /\ UNCHANGED <<now, nodes, sel>>
    /\ UNCHANGED vars

\* lines 60-63 and the deferred Unlock
CheckUnlock(t) ==
    /\ th[t].pc = "c_set"
    /\ nodes' = [nodes EXCEPT ![th[t].n] =
                    IF th[t].stale THEN [@ EXCEPT !.isActive = FALSE] ELSE @]
    /\ mutex' = [mutex EXCEPT ![th[t].n] = IF @ = t THEN 0 ELSE @]
    /\ th' = [th EXCEPT ![t] = IdleThread]
    /\ obs' = [op |-> "checkLiveness", n |-> th[t].n, stale |-> th[t].stale]
    /\ UNCHANGED <<now, sel>>
    /\ UNCHANGED vars

\* a method that only reads: its caller gets ret, the node stays as it is
Reads(t, n, o) ==
    /\ Idle(t) /\ Unlocked(n)
    /\ obs' = o
    /\ UNCHANGED <<now, nodes, mutex, th, sel>>
    /\ UNCHANGED vars

CallIsWriteAble(t, n) ==
    Reads(t, n, [op |-> "isWriteAble", n |-> n, ret |-> isWriteAble(nodes[n]),
                 seen |-> nodes[n]])

CallBadPartitionIDs(t, n, disk) ==
    Reads(t, n, [op |-> "badPartitionIDs", n |-> n, disk |-> disk,
                 ret |-> badPartitionIDs(nodes[n], disk), seen |-> nodes[n]])

CallIsAvailCarryNode(t, n) ==
    Reads(t, n, [op |-> "isAvailCarryNode", n |-> n,
                 ret |-> isAvailCarryNode(nodes[n])])

CallToJSON(t, n) ==
    Reads(t, n, [op |-> "toJSON", n |-> n, ret |-> toJSON(nodes[n])])

\* createHeartbeatTask takes no lock: it reads the address, which never changes
CallCreateHeartbeatTask(t, n) ==
    /\ Idle(t)
    /\ obs' = [op |-> "createHeartbeatTask", n |-> n,
               ret |-> createHeartbeatTask(n, "master")]
    /\ UNCHANGED <<now, nodes, mutex, th, sel>>
    /\ UNCHANGED vars

\* a method that writes in one step under the lock
Writes(t, n, d, o) ==
    /\ Idle(t) /\ Unlocked(n)
    /\ nodes' = [nodes EXCEPT ![n] = d]
    /\ obs' = o
    /\ UNCHANGED <<now, mutex, th, sel>>
    /\ UNCHANGED vars

CallSetCarry(t, n, carry) ==
    Writes(t, n, SetCarry(nodes[n], carry), [op |-> "SetCarry", n |-> n])

MaxSelect == 2
CallSelectNodeForWrite(t, n) ==
    /\ nodes[n].SelectCount < MaxSelect
    /\ Writes(t, n, SelectNodeForWrite(nodes[n]),
              [op |-> "SelectNodeForWrite", n |-> n])

\* the registry with its nodes just created and no selection under way
IdleSelector == [pc |-> "idle", excluded |-> {}, cand |-> {}, chosen |-> 0,
                 rounds |-> 0]
NumSelectors == 2
Selectors == 1..NumSelectors
NodeInit ==
    /\ now = BootTime
    /\ nodes \in [Nodes -> {newDataNode(c) : c \in RandFloats}]
    /\ mutex = [n \in Nodes |-> 0]
    /\ th = [t \in Threads |-> IdleThread]
    /\ obs = NoObs
    /\ sel = [s \in Selectors |-> IdleSelector]

\* the threads work on the node registered first; the nodes do not share
\* any field
Watched == {CHOOSE n \in Nodes : \A m \in Nodes : n <= m}

LiveNext ==
    \/ Tick
    \/ \E t \in Threads, n \in Watched, resp \in HeartBeats : UpdateLock(t, n, resp)
    \/ \E t \in Threads : UpdateReports(t)
    \/ \E t \in Threads : UpdateRatio(t)
    \/ \E t \in Threads : UpdateUnlock(t)
    \/ \E t \in Threads, n \in Watched : CheckLock(t, n)
    \/ \E t \in Threads : CheckUnlock(t)
    \/ \E t \in Threads, n \in Watched : CallIsWriteAble(t, n)
    \/ \E t \in Threads, n \in Watched, disk \in Disks : CallBadPartitionIDs(t, n, disk)
    \/ \E t \in Threads, n \in Watched : CallIsAvailCarryNode(t, n)
    \/ \E t \in Threads, n \in Watched : CallToJSON(t, n)
    \/ \E t \in Threads, n \in Watched : CallCreateHeartbeatTask(t, n)
    \/ \E t \in Threads, n \in Watched, c \in RandFloats \cup {One} : CallSetCarry(t, n, c)
    \/ \E t \in Threads, n \in Watched : CallSelectNodeForWrite(t, n)

(***************************************************************************)
(* The Carry Scheduler.  A selector filters the write-eligible nodes that  *)
(* are not excluded, picks among the candidates whose carry is at least 1, *)
(* and while there is none adds 1 - usageRatio to every candidate's carry. *)
(* It takes one node's lock at a time, through the node's methods.         *)
(***************************************************************************)
MaxRounds == 4

\* step 2's tie-break: the highest carry, then the lowest selectCount
Preferred(ready) ==
    LET top == {n \in ready :
                   \A m \in ready : FGe(nodes[n].Carry, nodes[m].Carry)}
    IN  {n \in top : \A m \in top :
                         nodes[n].SelectCount <= nodes[m].SelectCount}

Candidates(excluded) == {n \in Nodes \ excluded : isWriteAble(nodes[n])}
Ready(cand) == {n \in cand : isAvailCarryNode(nodes[n])}
\* step 3's increment of a candidate's carry
Accrued(d) == FAdd(d.Carry, FSub(One, d.Ratio))

\* step 1: the candidates; with none the selection fails at once
SelectStart(s, excluded) ==
    /\ sel[s].pc = "idle"
    /\ \A n \in Nodes : Unlocked(n)
    /\ LET cand == Candidates(excluded)
       IN  IF cand = {}
           THEN /\ obs' = [op |-> "select", n |-> 0, by |-> s]
                /\ UNCHANGED sel
           ELSE /\ obs' = NoObs
                /\ sel' = [sel EXCEPT ![s] = [IdleSelector EXCEPT
                              !.pc = "s_check", !.excluded = excluded,
                              !.cand = cand]]
    /\ UNCHANGED <<now, nodes, mutex, th>>
    /\ UNCHANGED vars

\* step 2: the ready candidates, and the choice among them
SelectCheck(s) ==
    /\ sel[s].pc = "s_check"
    /\ \A n \in sel[s].cand : Unlocked(n)
    /\ LET ready == Ready(sel[s].cand)
       IN  IF ready = {}
           THEN sel' = [sel EXCEPT ![s].pc = "s_lottery"]
           ELSE \E n \in Preferred(ready) :
                    sel' = [sel EXCEPT ![s].pc = "s_select", ![s].chosen = n]
    /\ obs' = NoObs
    /\ UNCHANGED <<now, nodes, mutex, th>>
    /\ UNCHANGED vars

\* step 3: one round of the lottery
SelectLottery(s) ==
    /\ sel[s].pc = "s_lottery"
    /\ sel[s].rounds < MaxRounds
    /\ \A n \in sel[s].cand : Unlocked(n)
    /\ nodes' = [n \in Nodes |->
                    IF n \in sel[s].cand
                    THEN SetCarry(nodes[n], Accrued(nodes[n]))
                    ELSE nodes[n]]
    /\ sel' = [sel EXCEPT ![s].pc = "s_check", ![s].rounds = @ + 1]
    /\ obs' = NoObs
    /\ UNCHANGED <<now, mutex, th>>
    /\ UNCHANGED vars

\* step 4: the chosen node is selected
SelectDone(s) ==
    /\ sel[s].pc = "s_select"
    /\ Unlocked(sel[s].chosen)
    /\ nodes[sel[s].chosen].SelectCount < MaxSelect
    /\ nodes' = [nodes EXCEPT ![sel[s].chosen] = SelectNodeForWrite(@)]
    /\ sel' = [sel EXCEPT ![s] = IdleSelector]
    /\ obs' = [op |-> "select", n |-> sel[s].chosen, by |-> s]
    /\ UNCHANGED <<now, mutex, th>>
    /\ UNCHANGED vars

Exclusions == {{}} \cup {{n} : n \in Nodes}

\* selectors run side by side
SchedNext ==
    \/ \E s \in Selectors, x \in Exclusions : SelectStart(s, x)
    \/ \E s \in Selectors : SelectCheck(s)
    \/ \E s \in Selectors : SelectLottery(s)
    \/ \E s \in Selectors : SelectDone(s)

\* the registry when every node has had its first heartbeat reply
ReportedInit ==
    /\ now = BootTime
    /\ nodes \in [Nodes -> {updateNodeMetric(newDataNode(c), resp, BootTime) :
                               c \in RandFloats, resp \in HeartBeats}]
    /\ mutex = [n \in Nodes |-> 0]
    /\ th = [t \in Threads |-> IdleThread]
    /\ obs = NoObs
    /\ sel = [s \in Selectors |-> IdleSelector]

\* one selector, nothing excluded
OneSelector == CHOOSE s \in Selectors : \A r \in Selectors : s <= r
LotteryNext ==
    \/ SelectStart(OneSelector, {})
    \/ SelectCheck(OneSelector)
    \/ SelectLottery(OneSelector)
    \/ SelectDone(OneSelector)

\* the carries drawn by the nodes outside S; a specification that follows
\* the nodes of S alone fixes the other draws
DrewZero(S) == \A n \in Nodes \ S : nodes[n].Carry = Num(0)

\* the client with a registry that no master thread works on
ClientInit == Init /\ NodeInit /\ DrewZero({})

\* freshly constructed nodes, the watched one with any carry drawn
LiveInit == Init /\ NodeInit /\ DrewZero(Watched)

\* every node has had its first heartbeat
SchedInit == Init /\ ReportedInit

Spec == ClientInit /\ [][Next]_<<vars, nodeVars>>

\* the methods of DataNode called by concurrent master threads
LiveSpec == LiveInit /\ [][LiveNext]_<<vars, nodeVars>>

\* concurrent selectors of the Carry Scheduler
SchedSpec == SchedInit /\ [][SchedNext]_<<vars, nodeVars>>

\* one selector, called again and again
LotterySpec == SchedInit /\ [][LotteryNext]_<<vars, nodeVars>>

LotteryFairSpec == /\ SchedInit /\ [][LotteryNext]_<<vars, nodeVars>>
                   /\ WF_<<vars, nodeVars>>(LotteryNext)
(***************************************************************************)
(* Properties                                                              *)
(***************************************************************************)
Range(s) == {s[k] : k \in 1..Len(s)}
IsPrefix(s, t) == Len(s) <= Len(t) /\ SubSeq(t, 1, Len(s)) = s
NoDuplicates(s) == Cardinality(Range(s)) = Len(s)
InWriteAttempt == pc \in {"w_conn", "w_send", "w_recv", "w_check"}
ReplyHeaderOk ==
    /\ reply.Opcode = "OpOk"
    /\ reply.ReqID = request.ReqID
    /\ reply.PartitionID = request.PartitionID
FailureCauses == {"get", "send", "recv", "check"}

\* C1: in Write, Read and Delete, whatever the outcome of each network step,
\* every connection acquired from the pool has been released exactly once when
\* the call returns, and nothing is released that was not acquired.
C1_EveryConnReleasedOnce ==
    /\ pool.misPuts = 0
    /\ pool.held \subseteq {conn}
    /\ pc = "done" => pool.held = {}

\* C2: Write returns a key with a nil error only on a reply that passed all
\* four checks (opcode, request id, partition id, CRC of the request payload);
\* an attempt whose reply fails a check returns no key, excludes the partition
\* and gives the connection back marked for closing.
C2_KeyInv ==
    /\ key # <<>> => op = "Write" /\ pc = "done" /\ err = NilErr
    /\ (op = "Write" /\ pc = "done" /\ err = NilErr) =>
          /\ key # <<>>
          /\ ReplyHeaderOk
          /\ reply.Crc = ChecksumIEEE(request.Data)
C2_FailedCheckStep ==
    (/\ pc = "w_check"
     /\ ~(ReplyHeaderOk /\ reply.Crc = ChecksumIEEE(request.Data)))
    => /\ pc' = "w_loop"
       /\ key' = <<>>
       /\ exclude' = Append(exclude, dp.PartitionID)
       /\ pool'.lastPut = [conn |-> conn, forceClose |-> TRUE]
       /\ pool'.held = pool.held \ {conn}
C2_WriteKeyOnlyIfValid == []C2_KeyInv /\ [][C2_FailedCheckStep]_vars

C2_Witness ==
    /\ op = "Write" /\ pc = "done" /\ key # <<>>
    /\ Len(exclude) >= 1
    /\ Len(arg) >= 1

\* C3: Read returns a payload only from a reply that validates (opcode, request
\* id, partition id, CRC of the returned payload equal to the reply's CRC); a
\* reply that does not validate is rejected, its connection is given back for
\* closing and the next host is tried; the payload is that of the first host, in
\* listed order, whose reply validates, and no later host is contacted.
C3_PayloadInv ==
    /\ data # NilData => op = "Read" /\ pc = "done" /\ err = NilErr
    /\ (op = "Read" /\ pc = "done" /\ err = NilErr) =>
          /\ data = <<reply.Data>>
          /\ ReplyHeaderOk
          /\ ChecksumIEEE(reply.Data) = reply.Crc
          /\ Len(tried) \in 1..Len(dp.Hosts)
          /\ pool.gets = Len(tried)
          /\ \A k \in 1..Len(tried) :
                /\ tried[k].host = dp.Hosts[k]
                /\ IF k = Len(tried) THEN tried[k].cause = "ok"
                   ELSE tried[k].cause \in FailureCauses
C3_RejectedReplyStep ==
    (/\ pc = "r_check"
     /\ ~(ReplyHeaderOk /\ ChecksumIEEE(reply.Data) = reply.Crc))
    => /\ pc' = "r_conn"
       /\ data' = NilData
       /\ hostIdx' = hostIdx + 1
       /\ pool'.lastPut = [conn |-> conn, forceClose |-> TRUE]
       /\ pool'.held = pool.held \ {conn}
C3_ReadFirstValidReplica == []C3_PayloadInv /\ [][C3_RejectedReplyStep]_vars

C3_Witness ==
    /\ op = "Read" /\ pc = "done" /\ err = NilErr
    /\ Len(tried) = 3
    /\ tried[1].cause = "check" /\ tried[2].cause = "check"
    /\ data = <<reply.Data>> /\ Len(reply.Data) >= 1

\* C4: Write terminates and makes at most MaxRetryCnt attempts; when all
\* MaxRetryCnt attempts got a partition and failed, it returns an empty key
\* and EIO, without a further attempt.  Termination: a running Write always
\* has a step to take, and each step lowers a measure that is never negative.
C4_Measure ==
    IF pc = "done" THEN 0
    ELSE 5 * (MaxRetryCnt - i)
         + (CASE pc = "w_loop" -> 5 [] pc = "w_conn" -> 4 [] pc = "w_send" -> 3
              [] pc = "w_recv" -> 2 [] OTHER -> 1)
C4_AttemptsInv ==
    op = "Write" =>
        /\ i <= MaxRetryCnt
        /\ Len(attempted) <= MaxRetryCnt
        /\ pool.gets <= MaxRetryCnt
        /\ lookups <= MaxRetryCnt
        /\ (pc = "done" /\ Len(exclude) = MaxRetryCnt) => key = <<>> /\ err = EIO
        /\ (pc = "done" /\ err = EIO) => Len(attempted) = MaxRetryCnt
        /\ pc # "done" =>
              ENABLED (WriteLoop \/ WriteGetConn \/ WriteSend \/ WriteRecv
                       \/ WriteCheck)
C4_ProgressStep ==
    (op = "Write" /\ pc # "done") =>
        /\ op' = "Write"
        /\ C4_Measure' >= 0
        /\ C4_Measure' < C4_Measure
C4_WriteBoundedRetry == []C4_AttemptsInv /\ [][C4_ProgressStep]_vars

C4_Witness ==
    /\ op = "Write" /\ pc = "done" /\ err = EIO /\ key = <<>>
    /\ Len(exclude) = MaxRetryCnt
    /\ pool.gets = MaxRetryCnt

\* C5: on any Write attempt where the locator has no eligible partition, Write
\* returns at once with ENOMEM (not EIO): no connection is acquired and no
\* further attempt is made.
C5_NoPartitionStep ==
    (/\ pc = "w_loop" /\ i < MaxRetryCnt
     /\ \A p \in rwParts : \E k \in 1..Len(exclude) : exclude[k] = p)
    => /\ pc' = "done"
       /\ key' = <<>> /\ err' = ENOMEM
       /\ pool' = pool /\ i' = i /\ attempted' = attempted /\ exclude' = exclude
C5_NoPartitionInv ==
    /\ ENOMEM # EIO
    /\ (op = "Write" /\ pc = "done" /\ err = ENOMEM) =>
          /\ key = <<>>
          /\ pool.held = {}
          /\ pool.gets = Len(exclude)
          /\ Len(attempted) = Len(exclude)
          /\ Len(exclude) < MaxRetryCnt
C5_NoPartitionIsENOMEM == []C5_NoPartitionInv /\ [][C5_NoPartitionStep]_vars

C5_Witness ==
    /\ op = "Write" /\ pc = "done" /\ err = ENOMEM
    /\ Len(exclude) = 2

\* C6: within one Write the exclusion list only grows, holds the partition of
\* every failed attempt when the locator is asked again, and (the locator
\* honouring it) no partition is attempted twice.
C6_ExcludeInv ==
    op = "Write" =>
        /\ NoDuplicates(attempted)
        /\ IsPrefix(exclude, attempted)
        /\ pc = "w_loop" => exclude = attempted
        /\ InWriteAttempt =>
              /\ attempted = Append(exclude, dp.PartitionID)
              /\ dp.PartitionID \notin Range(exclude)
        /\ (pc = "done" /\ err = NilErr) =>
              attempted = Append(exclude, dp.PartitionID)
C6_GrowStep == (op = "Write" /\ op' = "Write") => IsPrefix(exclude, exclude')
C7_BadKey ==
    \/ Len(arg) # KeySegsCnt
    \/ arg[1] # ClientCluster
    \/ arg[2] # ClientVolname
C7_BadKeyIsEINVAL ==
    (op \in {"Read", "Delete"} /\ C7_BadKey) =>
        /\ pc = "done"
        /\ err = EINVAL
        /\ data = NilData
        /\ lookups = 0
        /\ pool.gets = 0
        /\ tried = <<>>

C7_Witness ==
    /\ op = "Delete" /\ pc = "done" /\ err = EINVAL
    /\ Len(arg) = KeySegsCnt
    /\ arg[1] = ClientCluster /\ arg[2] # ClientVolname

\* C8: when the partition id of a valid key resolves to no partition, Read and
\* Delete both return an error, never nil, and make no network call.
C8_UnresolvedIsError ==
    (op \in {"Read", "Delete"} /\ ~C7_BadKey /\ arg[3] \notin PartIds) =>
        /\ pc \in {"r_lookup", "d_lookup", "done"}
        /\ pool.gets = 0
        /\ tried = <<>>
        /\ pc = "done" => err # NilErr /\ err = ErrNotExist /\ data = NilData

C8_Witness ==
    /\ op = "Read" /\ pc = "done" /\ ~C7_BadKey
    /\ arg[3] = UnknownPid
    /\ lookups = 1
    /\ err = ErrNotExist

\* C9: Delete makes exactly one network attempt, to the primary host only; it
\* returns nil only when the reply's opcode is success, and an error when the
\* connect, the send or the receive fails or the opcode is not success.
C9_DeleteOneAttempt ==
    (op = "Delete" /\ dp # NilDp) =>
        /\ Len(tried) <= 1
        /\ pool.gets = Len(tried)
        /\ \A k \in 1..Len(tried) : tried[k].host = dp.Hosts[1]
        /\ pc = "done" =>
              /\ Len(tried) = 1
              /\ err = NilErr <=>
                    (tried[1].cause = "ok" /\ reply.Opcode = "OpOk")
              /\ tried[1].cause \in {"get", "send", "recv"} =>
                    reply = NoPacket /\ err # NilErr
              /\ reply.Opcode # "OpOk" => err # NilErr

C9_Witness ==
    /\ op = "Delete" /\ pc = "done"
    /\ reply.Opcode = "OpErr"
    /\ err # NilErr
    /\ pool.gets = 1 /\ Len(tried) = 1

\* C10: when every replica host fails, Read returns no data and an I/O error
\* that carries the cause recorded for each replica tried.
C10_CauseMsg(c) ==
    CASE c = "get" -> "ReadRequest Get connect"
      [] c = "send" -> "ReadRequest Write To host"
      [] c = "recv" -> "ReadRequest ReadFrom host"
      [] OTHER -> "ReadRequest CheckReadResponse"
C10_ReadAggregatesCauses ==
    (/\ op = "Read" /\ pc = "done" /\ dp # NilDp
     /\ Len(tried) = Len(dp.Hosts)
     /\ \A k \in 1..Len(tried) : tried[k].cause \in FailureCauses)
    => /\ data = NilData
       /\ "EIO" \in Range(err)
       /\ \A k \in 1..Len(tried) : C10_CauseMsg(tried[k].cause) \in Range(err)

(***************************************************************************)
(* The registry: liveness, selection and locking                           *)
(***************************************************************************)
IsActiveOf(n) == nodes[n].isActive

\* the step in which selector s selects the node it chose
Selects(s) == sel[s].pc = "s_select" /\ sel'[s].pc = "idle"

\* the fields a heartbeat reply sets
Reported(d) ==
    <<d.Total, d.Used, d.Available, d.RackName, d.DataPartitionCount,
      d.dataPartitionReports>>

\* C11, states: a checkLiveness that found the report older than the timeout
\* has returned with the node inactive; an updateNodeMetric has returned with
\* the node active and its report time the current time; and while a
\* checkLiveness that found the node stale is yet to write, the node's report
\* time is still older than the timeout.
C11_LiveInv ==
    /\ (obs.op = "checkLiveness" /\ obs.stale) => ~IsActiveOf(obs.n)
    /\ obs.op = "updateNodeMetric"
       => IsActiveOf(obs.n) /\ nodes[obs.n].ReportTime = now
    /\ \A t \in Threads :
           (th[t].pc = "c_set" /\ th[t].stale)
           => IsStale(nodes[th[t].n], now)

\* C11, steps: isActive goes from true to false only on a node whose report
\* is older than the timeout when the step is taken.
C11_DeactivateStep ==
    \A n \in Nodes :
        (IsActiveOf(n) /\ ~IsActiveOf(n)') => IsStale(nodes[n], now)

\* C11: after checkLiveness on a node whose last report is older than the
\* timeout the node is inactive, right after updateNodeMetric it is active
\* with the current time as its report time, and under every interleaving
\* of the two no checkLiveness deactivates a node whose last report is
\* within the timeout.
C11_LivenessFollowsReports == []C11_LiveInv /\ [][C11_DeactivateStep]_nodeVars

\* a node that reported, was left alone past the timeout, and was found
\* stale and deactivated by checkLiveness
C11_Witness ==
    /\ obs.op = "checkLiveness" /\ obs.stale
    /\ nodes[obs.n].ReportTime # ZeroTime
    /\ ~IsActiveOf(obs.n)

\* C12: the step that selects a node takes exactly 1.0 from that node's
\* carry and adds 1 to its selectCount; it leaves every other node, and the
\* chosen node's capacity, liveness and report fields, as they were.
C12_SelectionFrame ==
    [][\A s \in Selectors :
           Selects(s)
           => LET n == sel[s].chosen
              IN  /\ nodes'[n].Carry = Num(nodes[n].Carry[2] - Denom)
                  /\ nodes'[n].SelectCount = nodes[n].SelectCount + 1
                  /\ \A m \in Nodes \ {n} : nodes'[m] = nodes[m]
                  /\ Reported(nodes'[n]) = Reported(nodes[n])
                  /\ nodes'[n].isActive = nodes[n].isActive
                  /\ nodes'[n].ReportTime = nodes[n].ReportTime]_nodeVars

\* a selection was made when the other node had carry and a selection of
\* its own behind it
C12_Witness ==
    /\ obs.op = "select" /\ obs.n # 0
    /\ \E m \in Nodes \ {obs.n} :
           nodes[m].SelectCount > 0 /\ FGt(nodes[m].Carry, Num(0))

\* C13: the carry of every node is at least 0 in every reachable state.
C13_CarryNeverNegative ==
    \A n \in Nodes : FGe(nodes[n].Carry, Num(0))

\* the write-eligible nodes whose usage ratio is below 1
Accruing == {n \in Nodes : isWriteAble(nodes[n]) /\ FGt(One, nodes[n].Ratio)}
SeveralAccrue == Cardinality(Accruing) >= 2 /\ Accruing = Candidates({})

C15_DecrementOnlyReady ==
    [][\A s \in Selectors :
           Selects(s) => FGe(nodes[sel[s].chosen].Carry, One)]_nodeVars

\* used/total as an exact fraction: r is a finite value with r * total = used
IsQuotient(r, used, total) == IsNum(r) /\ r[2] * total = used * Denom

\* C16: whenever no updateNodeMetric is between its first and its last write
\* on a node, the node's Ratio is Used/Total if Total > 0 and 0.0 if Total
\* is 0, a value from 0 to 1.
C16_RatioIsUsedOverTotal ==
    \A n \in Nodes :
        ~MidUpdate(n)
        => /\ nodes[n].Total > 0
              => IsQuotient(nodes[n].Ratio, nodes[n].Used, nodes[n].Total)
           /\ nodes[n].Total = 0 => nodes[n].Ratio = Num(0)
           /\ FGe(nodes[n].Ratio, Num(0)) /\ FGe(One, nodes[n].Ratio)

\* C17: on every attempt of Write the request that is sent and validated
\* carries the id of the partition the locator gave for that attempt.
C17_RequestNamesSelectedPartition ==
    (op = "Write" /\ pc \in {"w_conn", "w_send", "w_recv", "w_check"})
    => request.PartitionID = dp.PartitionID

\* the rounds after which a candidate that accrues at all, 1/Denom or more
\* a round, has a carry of 1
RoundsToReady == Denom

\* C18: a selection with a candidate ends its lottery: it never stands
\* before another round with RoundsToReady rounds behind it.
C18_LotteryEnds ==
    \A s \in Selectors :
        (sel[s].pc = "s_lottery" /\ sel[s].cand # {})
        => sel[s].rounds < RoundsToReady

\* the reported fields of d are those of one heartbeat reply, or those of a
\* node that never had one
FromOneReply(d) ==
    \/ Reported(d) = Reported(newDataNode(d.Carry))
    \/ \E resp \in HeartBeats :
           Reported(d) = <<resp.Total, resp.Used, resp.Available, resp.RackName,
                          resp.CreatedPartitionCnt, resp.PartitionReports>>
\* the partition ids, in order, of the reports of d on disk
IdsOnDisk(d, disk) ==
    LET on == SelectSeq(d.dataPartitionReports,
                        LAMBDA r : r.DiskPath = disk)
    IN  [k \in 1..Len(on) |-> on[k].PartitionID]

\* C19: isWriteAble and badPartitionIDs never run between the first and the
\* last write of an updateNodeMetric on their node: the node they see has
\* its capacity fields and its report list from one and the same reply,
\* isWriteAble answers for that node, badPartitionIDs(disk) returns exactly
\* the partition ids of that report list whose disk path is disk, and the
\* node is after the call as the reader saw it.
C19_ReadersSeeWholeUpdates ==
    obs.op \in {"isWriteAble", "badPartitionIDs"}
    => /\ ~MidUpdate(obs.n)
       /\ FromOneReply(obs.seen)
       /\ nodes[obs.n] = obs.seen
       /\ obs.op = "isWriteAble"
          => obs.ret = (obs.seen.isActive
                        /\ obs.seen.Available > DefaultDataPartitionSize)
       /\ obs.op = "badPartitionIDs"
          => obs.ret = IdsOnDisk(obs.seen, obs.disk)

\* badPartitionIDs picked two of the three reports of the latest reply
C19_Witness ==
    /\ obs.op = "badPartitionIDs"
    /\ Len(obs.ret) = 2
    /\ Len(obs.seen.dataPartitionReports) = 3
    /\ obs.seen.isActive

\* C20, steps: isActive goes from true to false only in the writing step of
\* a checkLiveness on that node, and from false to true only in the last
\* step of an updateNodeMetric on it.
C20_FlagStep ==
    \A n \in Nodes :
        /\ (IsActiveOf(n) /\ ~IsActiveOf(n)')
           => \E t \in Threads :
                  th[t].pc = "c_set" /\ th[t].n = n /\ th'[t].pc = "idle"
        /\ (~IsActiveOf(n) /\ IsActiveOf(n)')
           => \E t \in Threads :
                  th[t].pc = "u_alive" /\ th[t].n = n /\ th'[t].pc = "idle"

\* C20, states: a node that never had a metric update (its report time is
\* still the zero time) is inactive and so not write-eligible.
C20_NewIsInactive ==
    \A n \in Nodes :
        nodes[n].ReportTime = ZeroTime
        => ~IsActiveOf(n) /\ ~isWriteAble(nodes[n])

\* C20: isActive changes from true to false only in checkLiveness and from
\* false to true only in updateNodeMetric; a new node is inactive, every
\* other operation leaves the flag as it is, and no node is write-eligible
\* before its first metric update.
C20_OnlyTwoWritersOfIsActive == []C20_NewIsInactive /\ [][C20_FlagStep]_nodeVars

\* an active node was selected and had its carry set, and is still active;
\* a node with neither is still inactive
C20_Witness ==
    /\ obs.op = "SetCarry"
    /\ \E n \in Nodes : IsActiveOf(n) /\ nodes[n].SelectCount > 0
    /\ \E n \in Nodes : ~IsActiveOf(n)

=============================================================================
